---- MODULE Spec2Model ----
(***************************************************************************)
(* Model of BlackjackAgent (src/blackjack_agent.py): a tabular Q-learning  *)
(* agent with an epsilon-greedy policy.                                    *)
(*                                                                         *)
(* Numbers.  The program computes with Python numbers.  Here every number  *)
(* is an exact rational <<n, d>> in lowest terms with d > 0, and the       *)
(* update rule uses exact +, -, * on them: the rounding of binary floating *)
(* point is not modelled.                                                  *)
(*                                                                         *)
(* Observations.  An observation is a Python object: either a str or a     *)
(* tuple of int/bool items (the Blackjack observation is                   *)
(* (player_sum, dealer_card, usable_ace)).  str() is modelled character by *)
(* character and == by Python's comparison (True == 1, False == 0).        *)
(***************************************************************************)
EXTENDS Integers, Sequences, FiniteSets, TLC

\* q_table, learning_rate, discount_factor, exploration_rate: the agent's
\*   attributes; q_table is a function from <<state, action>> keys to values.
\* nlearn: the number of learn() calls made so far.
\* rmax:   the largest abs(reward) passed to learn() so far.
\* last:   the most recent call: its arguments, random draw and return value.
VARIABLES q_table, learning_rate, discount_factor, exploration_rate, nlearn, rmax, last

vars == <<q_table, learning_rate, discount_factor, exploration_rate, nlearn, rmax, last>>

(***************************************************************************)
(* Exact rational arithmetic.                                              *)
(***************************************************************************)
Abs(i) == IF i < 0 THEN -i ELSE i

RECURSIVE GCD(_, _)
GCD(a, b) == IF b = 0 THEN a ELSE GCD(b, a % b)

Rat(n, d) ==
    LET g == GCD(Abs(n), Abs(d))
        s == IF d < 0 THEN -1 ELSE 1
    IN  <<(s * n) \div g, (s * d) \div g>>

Zero == Rat(0, 1)
One == Rat(1, 1)

LCM(a, b) == (a \div GCD(a, b)) * b

RAdd(x, y) ==
    LET l == LCM(x[2], y[2])
    IN  Rat(x[1] * (l \div x[2]) + y[1] * (l \div y[2]), l)

RNeg(x) == <<-x[1], x[2]>>

RSub(x, y) == RAdd(x, RNeg(y))

RMul(x, y) ==
    LET a == Rat(x[1], y[2])
        b == Rat(y[1], x[2])
    IN  <<a[1] * b[1], a[2] * b[2]>>

RAbs(x) == <<Abs(x[1]), x[2]>>

RLess(x, y) ==
    LET l == LCM(x[2], y[2])
    IN  x[1] * (l \div x[2]) < y[1] * (l \div y[2])

RLeq(x, y) == ~RLess(y, x)

RMax(x, y) == IF RLess(x, y) THEN y ELSE x

RECURSIVE RPow(_, _)
RPow(x, n) == IF n = 0 THEN One ELSE RMul(x, RPow(x, n - 1))

(***************************************************************************)
(* Observations, str() and ==.                                             *)
(***************************************************************************)
PyInt(i) == [ty |-> "int", v |-> i]
PyBool(b) == [ty |-> "bool", v |-> IF b THEN 1 ELSE 0]

PyStr(s) == [kind |-> "str", s |-> s, items |-> <<>>]
PyTuple(t) == [kind |-> "tuple", s |-> "", items |-> t]

Digit(i) == <<"0", "1", "2", "3", "4", "5", "6", "7", "8", "9">>[i + 1]

RECURSIVE StrNat(_)
StrNat(i) == IF i < 10 THEN Digit(i) ELSE StrNat(i \div 10) \o Digit(i % 10)

StrItem(x) ==
    IF x.ty = "bool"
    THEN (IF x.v = 1 THEN "True" ELSE "False")
    ELSE StrNat(x.v)

RECURSIVE StrItems(_)
StrItems(t) ==
    IF Len(t) = 1 THEN StrItem(t[1])
    ELSE StrItem(t[1]) \o ", " \o StrItems(Tail(t))

PyStrOf(o) ==
    IF o.kind = "str" THEN o.s
    ELSE IF Len(o.items) = 0 THEN "()"
    ELSE IF Len(o.items) = 1 THEN "(" \o StrItem(o.items[1]) \o ",)"
    ELSE "(" \o StrItems(o.items) \o ")"

PyEq(o1, o2) ==
    /\ o1.kind = o2.kind
    /\ o1.s = o2.s
    /\ Len(o1.items) = Len(o2.items)
    /\ \A i \in 1..Len(o1.items) : o1.items[i].v = o2.items[i].v

(***************************************************************************)
(* Input domains.                                                          *)
(***************************************************************************)
ObsA == PyTuple(<<PyInt(12), PyInt(1), PyBool(FALSE)>>)
ObsA0 == PyTuple(<<PyInt(12), PyInt(1), PyInt(0)>>)
ObsB == PyStr("B")

Observations == {ObsA, ObsA0, ObsB}

ActionInputs == {0, 1, 2}

Rewards == {Rat(-1, 1), Rat(0, 1), Rat(1, 1)}

Draws == {Rat(0, 1), Rat(1, 10), Rat(1, 2)}

\* <<learning_rate, discount_factor, exploration_rate>>
Configs ==
    { <<Rat(1, 2), Rat(9, 10), Rat(0, 1)>>,
      <<Rat(1, 1), Rat(0, 1), Rat(1, 1)>>,
      <<Rat(1, 2), Rat(1, 1), Rat(1, 10)>> }

LearningRates == {Rat(1, 10), Rat(1, 2), Rat(1, 1)}

MaxLearn == 1
MaxDeep == 3
MaxRepeat == 4

(***************************************************************************)
(* The agent.                                                              *)
(***************************************************************************)
actions == <<0, 1>>

_get_state(observation) == PyStrOf(observation)

\* q_table.get((state, a), 0)
Get(t, state, a) == IF <<state, a>> \in DOMAIN t THEN t[<<state, a>>] ELSE Zero

\* max(...) over the values in the order of self.actions
RECURSIVE MaxOf(_)
MaxOf(values) ==
    IF Len(values) = 1 THEN values[1]
    ELSE RMax(values[1], MaxOf(Tail(values)))

\* Mutant: the last index holding m.
IndexOfLast(values, m) ==
    CHOOSE i \in 1..Len(values) :
        /\ values[i] = m
        /\ \A j \in (i + 1)..Len(values) : values[j] # m

\* values.index(m): the first index holding m
IndexOf(values, m) ==
    CHOOSE i \in 1..Len(values) :
        /\ values[i] = m
        /\ \A j \in 1..(i - 1) : values[j] # m

Values(t, state) == [i \in 1..Len(actions) |-> Get(t, state, actions[i])]

_get_best_action(t, state) ==
    LET values == Values(t, state)
    IN  actions[IndexOf(values, MaxOf(values))]

\* Mutant: the value of the first action in place of the maximum.
TdTargetFirst(t, df, reward, terminated, next_state) ==
    RAdd(reward, RMul(df, Get(t, next_state, actions[1])))

\* Mutant: no bootstrapping from a terminal transition.
TdTargetTerminal(t, df, reward, terminated, next_state) ==
    IF terminated THEN reward
    ELSE RAdd(reward, RMul(df, MaxOf(Values(t, next_state))))

\* Mutant: the discount factor left out.
TdTargetUndiscounted(t, df, reward, terminated, next_state) ==
    RAdd(reward, MaxOf(Values(t, next_state)))

\* reward + self.discount_factor * next_max
TdTarget(t, df, reward, terminated, next_state) ==
    RAdd(reward, RMul(df, MaxOf(Values(t, next_state))))

\* Mutant: the old value not decayed by (1 - learning_rate).
NewValueNoDecay(lr, old_value, target) ==
    RAdd(old_value, RMul(lr, target))

\* (1 - self.learning_rate) * old_value + self.learning_rate * (...)
NewValue(lr, old_value, target) ==
    RAdd(RMul(RSub(One, lr), old_value), RMul(lr, target))

\* self.q_table[key] = value
Store(t, key, value) ==
    [k \in (DOMAIN t) \cup {key} |-> IF k = key THEN value ELSE t[k]]

LearnNew(t, lr, df, act, observation, reward, terminated, next_observation) ==
    NewValue(lr, Get(t, _get_state(observation), act),
             TdTarget(t, df, reward, terminated, _get_state(next_observation)))

\* The table with the entries of state stored at their default, as a
\* defaultdict lookup would leave it.
Vivify(t, state) ==
    [k \in (DOMAIN t) \cup {<<state, actions[i]>> : i \in 1..Len(actions)} |->
        IF k \in DOMAIN t THEN t[k] ELSE Zero]

\* Mutant: the lookup of next_state stores its defaults.
LearnTableVivify(t, lr, df, act, observation, reward, terminated, next_observation) ==
    Store(Vivify(t, _get_state(next_observation)), <<_get_state(observation), act>>,
          LearnNew(t, lr, df, act, observation, reward, terminated, next_observation))

LearnTable(t, lr, df, act, observation, reward, terminated, next_observation) ==
    Store(t, <<_get_state(observation), act>>,
          LearnNew(t, lr, df, act, observation, reward, terminated, next_observation))

LearnReturn(t, lr, df, act, observation, reward, terminated, next_observation) ==
    RAbs(RSub(Get(t, _get_state(observation), act),
              LearnNew(t, lr, df, act, observation, reward, terminated, next_observation)))

NoCall ==
    [op |-> "none", observation |-> ObsA, act |-> 0, reward |-> Zero,
     terminated |-> FALSE, next_observation |-> ObsA, exploit_only |-> FALSE,
     draw |-> Zero, ret |-> Zero]

EmptyTable == [k \in {} |-> Zero]

Init ==
    /\ q_table = EmptyTable
    /\ learning_rate = Rat(1, 10)
    /\ discount_factor = Rat(9, 10)
    /\ exploration_rate = Rat(1, 10)
    /\ nlearn = 0
    /\ rmax = Zero
    /\ last = NoCall

\* Any finite table is a table the agent can hold: from a state with no
\* entry for next_state, learn(a, s, v / learning_rate, _, next) stores v
\* at (s, a).  InitTable draws such tables and the hyperparameters.
PresetKeys == {<<_get_state(ObsA), 1>>, <<_get_state(ObsB), 0>>, <<_get_state(ObsB), 1>>}
PresetValues == {Rat(0, 1), Rat(10, 1)}

InitTable ==
    /\ \E K \in SUBSET PresetKeys : q_table \in [K -> PresetValues]
    /\ \E c \in Configs :
        /\ learning_rate = c[1]
        /\ discount_factor = c[2]
        /\ exploration_rate = c[3]
    /\ nlearn = 0
    /\ rmax = Zero
    /\ last = NoCall

\* Attribute assignment of the hyperparameters right after construction.
Configure(c) ==
    /\ last.op = "none"
    /\ learning_rate' = c[1]
    /\ discount_factor' = c[2]
    /\ exploration_rate' = c[3]
    /\ last' = [NoCall EXCEPT !.op = "configure"]
    /\ UNCHANGED <<q_table, nlearn, rmax>>

\* Mutant: the exploration test is u <= exploration_rate.
actionExploreLeq(observation, exploit_only, u, c) ==
    /\ last' = [NoCall EXCEPT !.op = "action", !.observation = observation,
                              !.exploit_only = exploit_only, !.draw = u,
                              !.ret = Rat(IF ~exploit_only /\ RLeq(u, exploration_rate)
                                          THEN c
                                          ELSE _get_best_action(q_table, _get_state(observation)), 1)]
    /\ UNCHANGED <<q_table, learning_rate, discount_factor, exploration_rate, nlearn, rmax>>

\* Mutant: the greedy lookup stores the defaults of the state it reads.
actionVivify(observation, exploit_only, u, c) ==
    /\ last' = [NoCall EXCEPT !.op = "action", !.observation = observation,
                              !.exploit_only = exploit_only, !.draw = u,
                              !.ret = Rat(IF ~exploit_only /\ RLess(u, exploration_rate)
                                          THEN c
                                          ELSE _get_best_action(q_table, _get_state(observation)), 1)]
    /\ q_table' = IF ~exploit_only /\ RLess(u, exploration_rate)
                  THEN q_table
                  ELSE Vivify(q_table, _get_state(observation))
    /\ UNCHANGED <<learning_rate, discount_factor, exploration_rate, nlearn, rmax>>

action(observation, exploit_only, u, c) ==
    /\ last' = [NoCall EXCEPT !.op = "action", !.observation = observation,
                              !.exploit_only = exploit_only, !.draw = u,
                              !.ret = Rat(IF ~exploit_only /\ RLess(u, exploration_rate)
                                          THEN c
                                          ELSE _get_best_action(q_table, _get_state(observation)), 1)]
    /\ UNCHANGED <<q_table, learning_rate, discount_factor, exploration_rate, nlearn, rmax>>

learn(act, observation, reward, terminated, next_observation) ==
    /\ q_table' = LearnTable(q_table, learning_rate, discount_factor,
                             act, observation, reward, terminated, next_observation)
    /\ last' = [NoCall EXCEPT !.op = "learn", !.act = act, !.observation = observation,
                              !.reward = reward, !.terminated = terminated,
                              !.next_observation = next_observation,
                              !.ret = LearnReturn(q_table, learning_rate, discount_factor,
                                                  act, observation, reward, terminated,
                                                  next_observation)]
    /\ nlearn' = nlearn + 1
    /\ rmax' = RMax(rmax, RAbs(reward))
    /\ UNCHANGED <<learning_rate, discount_factor, exploration_rate>>

ConfigureStep == \E c \in Configs : Configure(c)

ActionStep ==
    \E observation \in Observations, exploit_only \in BOOLEAN, u \in Draws,
       c \in {actions[i] : i \in 1..Len(actions)} :
        action(observation, exploit_only, u, c)

LearnCall ==
    \E act \in ActionInputs, observation \in Observations, reward \in Rewards,
       terminated \in BOOLEAN, next_observation \in Observations :
        learn(act, observation, reward, terminated, next_observation)

LearnStep == nlearn < MaxLearn /\ LearnCall

\* The agent from its construction: configuration, then any calls.
Next == ConfigureStep \/ ActionStep \/ LearnStep

Spec == Init /\ [][Next]_vars

\* One call of action() or learn() on a drawn table.
NextCall == last.op = "none" /\ (ActionStep \/ LearnCall)

SpecTable == InitTable /\ [][NextCall]_vars

\* Sequences of learn() calls with valid actions on a fresh agent.
LearnValid ==
    /\ nlearn < MaxDeep
    /\ \E i \in 1..Len(actions), observation \in {ObsA, ObsB}, reward \in Rewards,
          terminated \in BOOLEAN, next_observation \in {ObsA, ObsB} :
        learn(actions[i], observation, reward, terminated, next_observation)

NextLearn == ConfigureStep \/ LearnValid

SpecLearn == Init /\ [][NextLearn]_vars

\* The same learn() call with reward 1, repeated on a fresh agent with
\* discount_factor 0.
ConfigureToy == \E lr \in LearningRates : Configure(<<lr, Zero, Rat(1, 10)>>)

LearnAgain ==
    /\ nlearn < MaxRepeat
    /\ \E act \in ActionInputs, observation \in Observations,
          terminated \in BOOLEAN, next_observation \in Observations :
        /\ last.op = "learn" =>
            /\ act = last.act
            /\ observation = last.observation
            /\ terminated = last.terminated
            /\ next_observation = last.next_observation
        /\ learn(act, observation, One, terminated, next_observation)

NextRepeat == ConfigureToy \/ LearnAgain

SpecRepeat == Init /\ [][NextRepeat]_vars

(***************************************************************************)
(* Claims.                                                                 *)
(***************************************************************************)
StateA == "(12, 1, False)"
StateB == "B"

\* The stored value at (state, a), or 0 when the entry is absent.
Stored(t, state, a) == IF <<state, a>> \in DOMAIN t THEN t[<<state, a>>] ELSE <<0, 1>>

\* The largest of the values stored for the actions 0 and 1 at state.
BestStored(t, state) ==
    IF RLess(Stored(t, state, 0), Stored(t, state, 1))
    THEN Stored(t, state, 1)
    ELSE Stored(t, state, 0)

LastKey == <<_get_state(last.observation), last.act>>

ExampleTable == [k \in {<<StateB, 0>>, <<StateB, 1>>} |-> IF k[2] = 0 THEN <<0, 1>> ELSE <<10, 1>>]

\* C1: learn() stores (1 - learning_rate) * old + learning_rate * (reward +
\* discount_factor * next_max) at (state, action), with old and next_max
\* read with default 0, and returns abs(old - new); with learning_rate 0.5,
\* discount_factor 0.9 and table {(B,0): 0, (B,1): 10},
\* learn(1, A, 0, _, B) stores 4.5 at (A,1) and returns 4.5.
C1_LearnStoresTdUpdate ==
    [][last'.op = "learn" =>
        LET key == <<_get_state(last'.observation), last'.act>>
            old == Stored(q_table, key[1], key[2])
            next_max == BestStored(q_table, _get_state(last'.next_observation))
            new == RAdd(RMul(RSub(<<1, 1>>, learning_rate), old),
                        RMul(learning_rate,
                             RAdd(last'.reward, RMul(discount_factor, next_max))))
        IN  /\ key \in DOMAIN q_table'
            /\ q_table'[key] = new
            /\ last'.ret = RAbs(RSub(old, new))
            /\ ( /\ q_table = ExampleTable
                 /\ learning_rate = <<1, 2>>
                 /\ discount_factor = <<9, 10>>
                 /\ last'.act = 1
                 /\ last'.observation = ObsA
                 /\ last'.reward = <<0, 1>>
                 /\ last'.next_observation = ObsB )
               => (q_table'[<<StateA, 1>>] = <<9, 2>> /\ last'.ret = <<9, 2>>)
    ]_vars

C1_Witness ==
    /\ last.op = "learn"
    /\ learning_rate = <<1, 2>>
    /\ discount_factor = <<9, 10>>
    /\ last.act = 1
    /\ last.observation = ObsA
    /\ last.reward = <<0, 1>>
    /\ last.next_observation = ObsB
    /\ DOMAIN q_table = {<<StateB, 0>>, <<StateB, 1>>, <<StateA, 1>>}
    /\ q_table[<<StateB, 0>>] = <<0, 1>>
    /\ q_table[<<StateB, 1>>] = <<10, 1>>
    /\ q_table[<<StateA, 1>>] = <<9, 2>>
    /\ last.ret = <<9, 2>>

\* C2: a call to learn() writes exactly the entry keyed by (encoded
\* observation, action): every other entry keeps its value, no other key is
\* added or removed, and no entry keyed by a different next_state appears.
C2_LearnWritesOneEntry ==
    [][last'.op = "learn" =>
        LET key == <<_get_state(last'.observation), last'.act>>
            next_state == _get_state(last'.next_observation)
        IN  /\ DOMAIN q_table' = (DOMAIN q_table) \cup {key}
            /\ \A k \in (DOMAIN q_table) \ {key} : q_table'[k] = q_table[k]
            /\ next_state # key[1] =>
                 \A k \in DOMAIN q_table' : k[1] = next_state => k \in DOMAIN q_table
    ]_vars

C2_Witness ==
    /\ last.op = "learn"
    /\ last.observation = ObsA0
    /\ last.next_observation = ObsB
    /\ \A k \in DOMAIN q_table : k[1] # StateB
    /\ LastKey \in DOMAIN q_table
    /\ <<StateA, 1>> \in DOMAIN q_table
    /\ q_table[<<StateA, 1>>] = <<10, 1>>

\* C3: action(observation, exploit_only=True) returns the first action in
\* the order [0, 1] whose value (stored, or 0 when absent) is the maximum:
\* 0 on an empty table and 0 whenever the two actions tie.
C3_GreedyFirstMax ==
    [][(last'.op = "action" /\ last'.exploit_only) =>
        LET state == _get_state(last'.observation)
            v0 == Stored(q_table, state, 0)
            v1 == Stored(q_table, state, 1)
        IN  /\ last'.ret = (IF RLess(v0, v1) THEN <<1, 1>> ELSE <<0, 1>>)
            /\ v0 = v1 => last'.ret = <<0, 1>>
            /\ DOMAIN q_table = {} => last'.ret = <<0, 1>>
    ]_vars

C3_Witness ==
    /\ last.op = "action"
    /\ last.exploit_only
    /\ last.observation = ObsB
    /\ <<StateB, 0>> \in DOMAIN q_table
    /\ <<StateB, 1>> \in DOMAIN q_table
    /\ q_table[<<StateB, 0>>] = <<10, 1>>
    /\ q_table[<<StateB, 1>>] = <<10, 1>>
    /\ last.ret = <<0, 1>>

\* C6: the terminated flag has no effect on learn(): on equal tables and
\* hyperparameters, the same call with terminated=True and with
\* terminated=False gives equal tables and equal return values.
C6_TerminatedIgnored ==
    [][last'.op = "learn" =>
        /\ q_table' = LearnTable(q_table, learning_rate, discount_factor, last'.act,
                                 last'.observation, last'.reward, ~last'.terminated,
                                 last'.next_observation)
        /\ last'.ret = LearnReturn(q_table, learning_rate, discount_factor, last'.act,
                                   last'.observation, last'.reward, ~last'.terminated,
                                   last'.next_observation)
    ]_vars

C6_Witness ==
    /\ last.op = "learn"
    /\ last.terminated
    /\ last.observation = ObsA
    /\ last.act = 0
    /\ last.reward = <<0, 1>>
    /\ last.next_observation = ObsB
    /\ learning_rate = <<1, 2>>
    /\ discount_factor = <<9, 10>>
    /\ <<StateB, 1>> \in DOMAIN q_table
    /\ q_table[<<StateB, 1>>] = <<10, 1>>
    /\ q_table[<<StateA, 0>>] = <<9, 2>>

\* The greedy choice for table t at the state of observation o.
Greedy(t, o) == <<_get_best_action(t, _get_state(o)), 1>>

\* C4: action() returns an action other than the greedy choice only when
\* exploit_only is False and the random draw is below exploration_rate; with
\* exploit_only=True, and with exploration_rate 0, it returns the greedy
\* action whatever the draws.
C4_ExploreOnlyBelowRate ==
    [][last'.op = "action" =>
        /\ last'.ret # Greedy(q_table, last'.observation) =>
             (~last'.exploit_only /\ RLess(last'.draw, exploration_rate))
        /\ last'.exploit_only => last'.ret = Greedy(q_table, last'.observation)
        /\ exploration_rate = <<0, 1>> => last'.ret = Greedy(q_table, last'.observation)
    ]_vars

C4_Witness ==
    /\ last.op = "action"
    /\ ~last.exploit_only
    /\ exploration_rate = <<0, 1>>
    /\ last.draw = <<0, 1>>
    /\ \E k \in DOMAIN q_table : k[1] = _get_state(last.observation) /\ k[2] = 1
                                 /\ RLess(<<0, 1>>, q_table[k])
    /\ last.ret = <<1, 1>>

\* C5: learn() with an action outside [0, 1] fails and leaves the table
\* unchanged: no entry keyed by (state, invalid action) is ever in the table.
C5_NoPhantomEntry ==
    \A k \in DOMAIN q_table : k[2] \in {actions[i] : i \in 1..Len(actions)}

\* C7 as stated: on a fresh agent with discount_factor 0, repeating one
\* learn() call with reward 1 never decreases the value at (s,a), never
\* takes it above 1, and after N calls abs(value - 1) < (1 - learning_rate)^N.
C7_StrictBound ==
    [][(last'.op = "learn" /\ discount_factor = <<0, 1>>) =>
        LET key == <<_get_state(last'.observation), last'.act>>
            old == Stored(q_table, key[1], key[2])
            new == q_table'[key]
        IN  /\ RLeq(old, new)
            /\ RLeq(new, <<1, 1>>)
            /\ RLess(RAbs(RSub(new, <<1, 1>>)), RPow(RSub(<<1, 1>>, learning_rate), nlearn'))
    ]_vars

\* C7 as amended: the same, with abs(value - 1) <= (1 - learning_rate)^N;
\* the two sides are equal.
C7_Bound ==
    [][(last'.op = "learn" /\ discount_factor = <<0, 1>>) =>
        LET key == <<_get_state(last'.observation), last'.act>>
            old == Stored(q_table, key[1], key[2])
            new == q_table'[key]
        IN  /\ RLeq(old, new)
            /\ RLeq(new, <<1, 1>>)
            /\ RLeq(RAbs(RSub(new, <<1, 1>>)), RPow(RSub(<<1, 1>>, learning_rate), nlearn'))
            /\ RAbs(RSub(new, <<1, 1>>)) = RPow(RSub(<<1, 1>>, learning_rate), nlearn')
    ]_vars

C7_Witness ==
    /\ last.op = "learn"
    /\ discount_factor = <<0, 1>>
    /\ learning_rate = <<1, 10>>
    /\ nlearn = MaxRepeat
    /\ RLess(<<0, 1>>, q_table[LastKey])
    /\ RLess(q_table[LastKey], <<1, 1>>)

\* C8: observations that compare equal encode to the same state, so a value
\* stored by learn() under one is the value read under the other, also for
\* (12, 1, False) and (12, 1, 0).
C8_EqualObservationsShareEntry ==
    last.op = "learn" =>
        \A o \in Observations :
            PyEq(o, last.observation) =>
                /\ _get_state(o) = _get_state(last.observation)
                /\ Stored(q_table, _get_state(o), last.act) = q_table[LastKey]

\* C9: action() never changes the table (an absent entry read as 0 is not
\* stored), and two consecutive exploit_only=True calls on one observation
\* return the same action.
C9_ActionReadOnly ==
    [][last'.op = "action" =>
        /\ q_table' = q_table
        /\ ( /\ last.op = "action"
             /\ last.exploit_only
             /\ last'.exploit_only
             /\ last'.observation = last.observation )
           => last'.ret = last.ret
    ]_vars

C9_Witness ==
    /\ last.op = "action"
    /\ last.exploit_only
    /\ nlearn = 1
    /\ \A k \in DOMAIN q_table : k[1] # _get_state(last.observation)

\* C10: with discount_factor < 1 and every reward so far of absolute value
\* at most R (rmax is the largest seen), every stored value v has
\* abs(v) <= R / (1 - discount_factor); with discount_factor 0.9 and
\* rewards in [-1, 1], abs(v) <= 10.
C10_ValuesBounded ==
    RLess(discount_factor, <<1, 1>>) =>
        \A k \in DOMAIN q_table :
            /\ RLeq(RMul(RAbs(q_table[k]), RSub(<<1, 1>>, discount_factor)), rmax)
            /\ discount_factor = <<9, 10>> => RLeq(RAbs(q_table[k]), <<10, 1>>)

C10_Witness ==
    /\ discount_factor = <<9, 10>>
    /\ rmax = <<1, 1>>
    /\ nlearn = MaxDeep
    /\ last.next_observation = last.observation
    /\ \E k \in DOMAIN q_table : RLess(<<1, 1>>, q_table[k])

====
